---- MODULE Spec2Model ----
(***************************************************************************)
(* A model of package jsonrpc (client.go): the JSON-RPC 2.0 client whose    *)
(* only operation is Client.Call.  A call is a sequence of stages           *)
(* (validate, options, requestBody, newRequest, Do, status check, envelope  *)
(* decode, error check, ID check, result decode, deferred drain and close). *)
(* The HTTP transport, the server behind it, the UUID generator and the     *)
(* caller's context are the environment.                                    *)
(***************************************************************************)
EXTENDS Integers, Sequences, FiniteSets, TLC

(***************************************************************************)
(* Bounds of the model.                                                     *)
(***************************************************************************)
\* longest option list passed to Call
MaxOpts == 2
\* most bytes-after-the-first-JSON-value segments a response body carries
MaxTrailing == 1

(***************************************************************************)
(* Program constants.                                                       *)
(***************************************************************************)
Version == "2.0"
StatusOK == 200
MethodPost == "POST"
DefaultClient == "http.DefaultClient"
\* uuid.Nil, the zero UUID: the value of response.ID when "id" is absent or null
UuidNil == "00000000-0000-0000-0000-000000000000"
\* a nil pointer / nil interface / nil map
Nil == "nil"

ParseError == -32700
InvalidRequest == -32600
MethodNotFound == -32601
InvalidParams == -32602
InternalError == -32603

(***************************************************************************)
(* The two call slots (goroutines that may run Call on the one Client).     *)
(***************************************************************************)
Calls == {1, 2}

\* the UUIDs uuid.New() can return (never uuid.Nil: version 4 sets version bits)
UUIDs == {"uuid-1", "uuid-2"}

(***************************************************************************)
(* Go values as the model writes them.                                      *)
(*   output value: a struct with two integer fields, the caller's *result.  *)
(*   JSON text is a tagged record: [t |-> "absent"] is a missing member,    *)
(*   "null" the literal null, "num"/"str" scalars, "obj" an object.         *)
(***************************************************************************)
JAbsent == [t |-> "absent"]
JNull == [t |-> "null"]
JNum(n) == [t |-> "num", v |-> n]
JStr(s) == [t |-> "str", s |-> s]

\* http.Header: canonical key -> list of values
HeaderKeys == {"Content-Type", "X-Custom-Header"}
EmptyHeader == [k \in HeaderKeys |-> <<>>]
\* textproto.CanonicalMIMEHeaderKey, on the keys the model uses
CanonicalKey(k) ==
  CASE k = "content-type" -> "Content-Type"
    [] k = "x-custom-header" -> "X-Custom-Header"
    [] OTHER -> k
\* a faulty variant: http.Header.Set, which replaces the key's list
HeaderSet(h, k, v) == [h EXCEPT ![CanonicalKey(k)] = <<v>>]
\* http.Header.Add: append to the canonical key's list
HeaderAdd(h, k, v) == [h EXCEPT ![CanonicalKey(k)] = Append(@, v)]

(***************************************************************************)
(* Marshalling the request envelope (type request, requestBody).           *)
(***************************************************************************)
\* whether json.Marshal can serialize the params value (a chan cannot be)
Serializable(params) == params # "chan"

\* a faulty variant: the field without `omitempty`, a nil params sent as null
ParamsMemberNoOmit(params) ==
  CASE params \in {Nil, "typed-nil"} -> JNull
    [] OTHER -> [t |-> "val", p |-> params]
\* the "params" member of the marshalled request: `omitempty` on an
\* interface{} field drops it when the interface is nil; a nil pointer held
\* in a non-nil interface is marshalled as null
ParamsMember(params) ==
  CASE params = Nil -> JAbsent
    [] params = "typed-nil" -> JNull
    [] OTHER -> [t |-> "val", p |-> params]

\* json.Marshal(&request{JSONRPC: Version, Method: method, Params: params, ID: id})
MarshalRequest(method, params, id) ==
  [jsonrpc |-> JStr(Version), method |-> JStr(method),
   params |-> ParamsMember(params), id |-> JStr(id)]

(***************************************************************************)
(* Options (callOptions, Option, WithHeader).                               *)
(***************************************************************************)
\* a nil http.Header
NilHeader == [nil |-> TRUE, kv |-> <<>>]
\* a non-nil http.Header, its entries in the order a range visits them
MkHeader(kv) == [nil |-> FALSE, kv |-> kv]

\* the zero callOptions of `var callOpts callOptions`
ZeroCallOptions == [Header |-> NilHeader]

\* a faulty variant: the option adds its entries to the ones already there
ApplyWithHeaderMerge(callOpts, header) ==
  IF header.nil THEN callOpts
  ELSE [callOpts EXCEPT !.Header = MkHeader(@.kv \o header.kv)]
\* WithHeader(header).apply(opts): opts.Header = header
ApplyWithHeader(callOpts, header) == [callOpts EXCEPT !.Header = header]

\* for _, opt := range opts { opt.apply(&callOpts) }
RECURSIVE ApplyOptions(_, _)
ApplyOptions(callOpts, opts) ==
  IF opts = <<>> THEN callOpts
  ELSE ApplyOptions(ApplyWithHeader(callOpts, Head(opts)), Tail(opts))

(***************************************************************************)
(* Building the HTTP request (Client.newRequest).                           *)
(***************************************************************************)
\* whether http.NewRequestWithContext can parse the url
UrlParses(url) == url # "://bad"

\* for _, value := range values { req.Header.Add(key, value) }
RECURSIVE AddValues(_, _, _)
AddValues(h, k, values) ==
  IF values = <<>> THEN h
  ELSE AddValues(HeaderAdd(h, k, Head(values)), k, Tail(values))

\* for key, values := range opts.Header { ... }
RECURSIVE AddEntries(_, _)
AddEntries(h, kv) ==
  IF kv = <<>> THEN h
  ELSE AddEntries(AddValues(h, Head(kv)[1], Head(kv)[2]), Tail(kv))

\* the header of the request newRequest returns
RequestHeader(callOpts) ==
  LET base == HeaderAdd(EmptyHeader, "Content-Type", "text/json")
  IN IF callOpts.Header.nil THEN base ELSE AddEntries(base, callOpts.Header.kv)

\* a faulty variant: http.NewRequest, which binds the request to no context
NewRequestBackground(url, body, callOpts) ==
  [Method |-> MethodPost, URL |-> url, Header |-> RequestHeader(callOpts),
   Body |-> body, Ctx |-> "background"]
\* the *http.Request newRequest returns: NewRequestWithContext binds it to
\* the caller's ctx
NewRequest(url, body, callOpts) ==
  [Method |-> MethodPost, URL |-> url, Header |-> RequestHeader(callOpts),
   Body |-> body, Ctx |-> "ctx"]

(***************************************************************************)
(* Transport selection (Client.httpClient).                                 *)
(***************************************************************************)
\* a faulty variant: the configured transport is ignored
HttpClientDefault(cl) == DefaultClient
\* Client.httpClient
HttpClient(cl) == IF cl.HTTPClient = Nil THEN DefaultClient ELSE cl.HTTPClient

(***************************************************************************)
(* Decoding the response envelope (type response, ResponseError, and the   *)
(* json.NewDecoder(res.Body).Decode(&rpcRes) of Client.Call).               *)
(* A body is [k, jsonrpc, result, error, id]: k is "object" for a JSON      *)
(* object with those members, "scalar" for another JSON value, "garbage"   *)
(* for text that is no JSON and "empty" for no text at all.                 *)
(***************************************************************************)
\* uuid.UUID.UnmarshalText (uuid.Parse): the canonical form, and the
\* urn:uuid: form of the same UUID; anything else is an error ("")
ParseUUID(s) ==
  CASE s \in UUIDs \cup {UuidNil} -> s
    [] s = "urn:uuid:uuid-1" -> "uuid-1"
    [] s = "urn:uuid:uuid-2" -> "uuid-2"
    [] OTHER -> ""

\* a faulty variant: a decoder that accepts the version "2.0" only
DecodeStringVersion(j) ==
  IF j = JStr(Version) THEN [ok |-> TRUE, v |-> Version] ELSE [ok |-> FALSE, v |-> ""]
\* the string field JSONRPC: null and absent leave "", a number is a type error
DecodeString(j) ==
  CASE j.t \in {"absent", "null"} -> [ok |-> TRUE, v |-> ""]
    [] j.t = "str" -> [ok |-> TRUE, v |-> j.s]
    [] OTHER -> [ok |-> FALSE, v |-> ""]

\* the ErrorCode (int) field
DecodeInt(j) ==
  CASE j.t \in {"absent", "null"} -> [ok |-> TRUE, v |-> 0]
    [] j.t = "num" -> [ok |-> TRUE, v |-> j.v]
    [] OTHER -> [ok |-> FALSE, v |-> 0]

\* the uuid.UUID field ID: null and absent leave uuid.Nil
DecodeID(j) ==
  CASE j.t \in {"absent", "null"} -> [ok |-> TRUE, v |-> UuidNil]
    [] j.t = "str" -> [ok |-> ParseUUID(j.s) # "", v |-> ParseUUID(j.s)]
    [] OTHER -> [ok |-> FALSE, v |-> UuidNil]

\* a nil *ResponseError
NilError == [nil |-> TRUE, Code |-> 0, Message |-> "", Data |-> JNull]

\* the *ResponseError field Error: null and absent leave the nil pointer, an
\* object allocates a ResponseError and fills the members it has, another
\* JSON value is a type error.  Data is an interface{}: it takes any value.
DecodeErrorMember(j) ==
  CASE j.t \in {"absent", "null"} -> [ok |-> TRUE, v |-> NilError]
    [] j.t = "obj" ->
         [ok |-> DecodeInt(j.code).ok /\ DecodeString(j.message).ok,
          v |-> [nil |-> FALSE, Code |-> DecodeInt(j.code).v,
                 Message |-> DecodeString(j.message).v,
                 Data |-> IF j.data.t = "absent" THEN JNull ELSE j.data]]
    [] OTHER -> [ok |-> FALSE, v |-> NilError]

\* a faulty variant: a null result is dropped, as a pointer field would
RawResultNullAsNil(j) == IF j.t = "null" THEN JAbsent ELSE j
\* the json.RawMessage field Result: the member's text as it stands, null
\* included; the nil RawMessage when the member is absent
RawResult(j) == j

\* the zero value of `var rpcRes response`
ZeroResponse == [JSONRPC |-> "", Result |-> JAbsent, Error |-> NilError, ID |-> UuidNil]

\* Decode(&rpcRes): err is "" on success
DecodeEnvelope(body) ==
  CASE body.k = "empty" -> [err |-> "EOF", v |-> ZeroResponse]
    [] body.k = "garbage" -> [err |-> "invalid character", v |-> ZeroResponse]
    [] body.k = "scalar" ->
         [err |-> "cannot unmarshal into Go value of type jsonrpc.response",
          v |-> ZeroResponse]
    [] OTHER ->
         LET v == [JSONRPC |-> DecodeString(body.jsonrpc).v,
                   Result |-> RawResult(body.result),
                   Error |-> DecodeErrorMember(body.error).v,
                   ID |-> DecodeID(body.id).v]
         IN CASE ~DecodeString(body.jsonrpc).ok ->
                   [err |-> "cannot unmarshal into Go struct field response.jsonrpc", v |-> v]
              [] ~DecodeErrorMember(body.error).ok ->
                   [err |-> "cannot unmarshal into Go struct field response.error", v |-> v]
              [] ~DecodeID(body.id).ok ->
                   [err |-> "invalid UUID", v |-> v]
              [] OTHER -> [err |-> "", v |-> v]

(***************************************************************************)
(* Decoding the result (json.Unmarshal([]byte(rpcRes.Result), result)).    *)
(* The caller's result points to a struct of two integer fields, A and B.   *)
(***************************************************************************)
\* a faulty variant: a field of the wrong type is reset to zero
UnmarshalFieldZeroing(j, old) ==
  CASE j.t \in {"absent", "null"} -> [ok |-> TRUE, v |-> old]
    [] j.t = "num" -> [ok |-> TRUE, v |-> j.v]
    [] OTHER -> [ok |-> FALSE, v |-> 0]
\* one field of the struct: null and absent leave it, a number sets it, any
\* other value is an UnmarshalTypeError that leaves it (decoding goes on)
UnmarshalField(j, old) ==
  CASE j.t \in {"absent", "null"} -> [ok |-> TRUE, v |-> old]
    [] j.t = "num" -> [ok |-> TRUE, v |-> j.v]
    [] OTHER -> [ok |-> FALSE, v |-> old]

\* json.Unmarshal(raw, result): err is "" on success
Unmarshal(raw, out) ==
  CASE raw.t = "absent" -> [err |-> "unexpected end of JSON input", out |-> out]
    [] raw.t = "null" -> [err |-> "", out |-> out]
    [] raw.t = "obj" ->
         LET a == UnmarshalField(raw.a, out.A)
             b == UnmarshalField(raw.b, out.B)
         IN [err |-> IF a.ok /\ b.ok THEN ""
                     ELSE "cannot unmarshal into Go struct field",
             out |-> [A |-> a.v, B |-> b.v]]
    [] OTHER -> [err |-> "cannot unmarshal into Go value", out |-> out]

(***************************************************************************)
(* The errors Call returns.  re is the *ResponseError when the error is the *)
(* server's own.                                                            *)
(***************************************************************************)
MkErr(kind, msg, cause) == [kind |-> kind, msg |-> msg, cause |-> cause, re |-> NilError]
NoErr == MkErr("none", "", "")
ErrEmptyMethod == MkErr("empty-method", "method is empty", "")
ErrMarshal == MkErr("marshal", "failed to marshal request", "json: unsupported type")
ErrNewRequest == MkErr("new-request", "failed to create new HTTP request", "parse url")
ErrPost(cause) == MkErr("post", "failed to post request", cause)
ErrStatus(status) == MkErr("status", "server does not respond 200 OK", status)
ErrDecodeResponse(cause) == MkErr("decode-response", "failed to decode response JSON", cause)
\* a faulty variant: the server's error wrapped as an envelope-decode failure
ErrServerWrapped(re) == MkErr("decode-response", "failed to decode response JSON", re.Message)
ErrServer(re) == [kind |-> "server", msg |-> re.Message, cause |-> "", re |-> re]
ErrIDMismatch == MkErr("id-mismatch", "response ID is not matched to request", "")
ErrDecodeResult(cause) == MkErr("decode-result", "failed to decode result JSON", cause)

(***************************************************************************)
(* The decisions of Client.Call.                                            *)
(***************************************************************************)
\* a faulty variant: the test is against a blank, not the empty string
MethodIsBlank(method) == method = " "
\* if method == ""
MethodIsEmpty(method) == method = ""
\* a faulty variant: any 2xx passes
StatusIs2xx(code) == code \in 200..299
\* if res.StatusCode != http.StatusOK
StatusIsOK(code) == code = StatusOK
\* a faulty variant: an error whose code is 0 is taken for none
HasErrorCode(r) == ~r.Error.nil /\ r.Error.Code # 0
\* if rpcRes.Error != nil
HasError(r) == ~r.Error.nil
\* faulty variants: the identifiers are not compared; a null id is accepted
IDMatchesAlways(rid, reqId) == TRUE
IDMatchesOrNil(rid, reqId) == rid = reqId \/ rid = UuidNil
\* if rpcRes.ID != id
IDMatches(rid, reqId) == rid = reqId
\* a faulty variant: the two defer statements in the other order
DeferredSwapped == <<"drain", "close">>
\* the deferred calls Call registers once Do has returned a response, in the
\* order of the defer statements; they run last-registered first
DeferredAfterDo == <<"close", "drain">>
\* a faulty variant: the request is posted again
AfterDoErrorRetry == "do"
\* where Call goes when Do returned an error: it returns
AfterDoError == "done"

\* a faulty variant: the identifier is checked before the server's error
ChecksIDFirst == <<"checkID", "checkError", "unmarshal">>
\* lines 126-136, the steps that follow the decoding of the envelope, in the
\* order of the source: the error check, the identifier check, the decoding
\* of the result
ChecksAfterDecode == <<"checkError", "checkID", "unmarshal">>
\* the step that follows a check that passed
CheckAfter(step) ==
  ChecksAfterDecode[1 + CHOOSE i \in 1..Len(ChecksAfterDecode) : ChecksAfterDecode[i] = step]

(***************************************************************************)
(* The state.                                                               *)
(***************************************************************************)
VARIABLES
  client,    \* the Client: [HTTPClient]
  args,      \* per call: the arguments url, method, params, result, opts
  ctxErr,    \* per call: ctx.Err() of the caller's context, "" while live
  cancelAt,  \* per call: the phase of the call when its context ended
  pc,        \* per call: the stage the call is at
  callOpts,  \* per call: the local callOpts
  id,        \* per call: the local id
  body,      \* per call: the local body, the marshalled request
  req,       \* per call: the local req
  sent,      \* per call: what the transports were handed, in order
  res,       \* per call: the local res
  resBody,   \* per call: the stream res.Body
  deferred,  \* per call: the deferred calls not yet run
  rpcRes,    \* per call: the local rpcRes
  out,       \* per call: the value the caller's result points to
  err,       \* per call: the error Call returns
  stages,    \* per call: the stages run so far, in order
  issued     \* the UUIDs uuid.New() has returned

vars == <<client, args, ctxErr, cancelAt, pc, callOpts, id, body, req, sent,
          res, resBody, deferred, rpcRes, out, err, stages, issued>>

\* a nil io.Reader
NoBytes == [jsonrpc |-> JAbsent, method |-> JAbsent, params |-> JAbsent, id |-> JAbsent]
NoReq == [Method |-> "", URL |-> "", Header |-> EmptyHeader, Body |-> NoBytes,
          Ctx |-> ""]
NoRes == [kind |-> "none"]
\* failed names the stage whose read of the stream first failed, "" if none
NoResBody == [unread |-> 0, failed |-> "", closed |-> FALSE]

(***************************************************************************)
(* The inputs.                                                              *)
(***************************************************************************)
HTTPClients == {Nil, "custom-client"}
Methods == {"", "ping"}
ParamValues == {Nil, "query", "chan"}
URLs == {"https://example.com/jsonrpc", "://bad"}
CustomHeader == MkHeader(<< <<"X-Custom-Header", <<"XXXX">> >> >>)
HeaderValues == {NilHeader, CustomHeader}
OptLists == UNION {[1..n -> HeaderValues] : n \in 0..MaxOpts}
Results == {[A |-> 7, B |-> 8]}
ArgSet == [url : URLs, method : Methods, params : ParamValues,
           result : Results, opts : OptLists]
\* the arguments of a slot no goroutine calls from
IdleArgs == [url |-> "", method |-> "", params |-> Nil,
             result |-> [A |-> 0, B |-> 0], opts |-> <<>>]

\* the state when the goroutines of Running enter Call
InitWith(Running, Args, Clients) ==
  /\ client \in [HTTPClient : Clients]
  /\ args \in [Calls -> Args \cup {IdleArgs}]
  /\ \A c \in Calls : (args[c] = IdleArgs) <=> (c \notin Running)
  /\ ctxErr = [c \in Calls |-> ""]
  /\ cancelAt = [c \in Calls |-> ""]
  /\ pc = [c \in Calls |-> IF c \in Running THEN "validate" ELSE "idle"]
  /\ callOpts = [c \in Calls |-> ZeroCallOptions]
  /\ id = [c \in Calls |-> UuidNil]
  /\ body = [c \in Calls |-> NoBytes]
  /\ req = [c \in Calls |-> NoReq]
  /\ sent = [c \in Calls |-> <<>>]
  /\ res = [c \in Calls |-> NoRes]
  /\ resBody = [c \in Calls |-> NoResBody]
  /\ deferred = [c \in Calls |-> <<>>]
  /\ rpcRes = [c \in Calls |-> ZeroResponse]
  /\ out = [c \in Calls |-> args[c].result]
  /\ err = [c \in Calls |-> NoErr]
  /\ stages = [c \in Calls |-> <<>>]
  /\ issued = {}

\* a faulty variant: one options value shared by the calls, holding what
\* another call left in it
SharedCallOptions(c) == callOpts[CHOOSE d \in Calls : d # c]
\* line 92, `var callOpts callOptions`: a zero value local to the call
DeclaredCallOptions(c) == ZeroCallOptions

(***************************************************************************)
(* Client.Call, stage by stage.                                             *)
(***************************************************************************)
\* `return e`: the deferred calls, if any, run before Call is back
Return(c, e) ==
  /\ err' = [err EXCEPT ![c] = e]
  /\ pc' = [pc EXCEPT ![c] = IF deferred[c] = <<>> THEN "done" ELSE "return"]

Stage(c, name) == stages' = [stages EXCEPT ![c] = Append(@, name)]

\* lines 88-90
Validate(c) ==
  /\ pc[c] = "validate"
  /\ Stage(c, "validate")
  /\ IF MethodIsEmpty(args[c].method)
       THEN Return(c, ErrEmptyMethod)
       ELSE pc' = [pc EXCEPT ![c] = "options"] /\ UNCHANGED err
  /\ UNCHANGED <<client, args, ctxErr, cancelAt, callOpts, id, body, req, sent,
                 res, resBody, deferred, rpcRes, out, issued>>

\* lines 92-97
Options(c) ==
  /\ pc[c] = "options"
  /\ Stage(c, "options")
  /\ callOpts' = [callOpts EXCEPT ![c] = ApplyOptions(DeclaredCallOptions(c), args[c].opts)]
  /\ pc' = [pc EXCEPT ![c] = "requestBody"]
  /\ UNCHANGED <<client, args, ctxErr, cancelAt, id, body, req, sent, res,
                 resBody, deferred, rpcRes, out, err, issued>>

\* lines 99-102 and requestBody: uuid.New() returns a UUID it has not
\* returned before; on a marshal error requestBody returns uuid.Nil
RequestBody(c) ==
  /\ pc[c] = "requestBody"
  /\ Stage(c, "requestBody")
  /\ \E u \in UUIDs \ issued :
       /\ issued' = issued \cup {u}
       /\ IF Serializable(args[c].params)
            THEN /\ id' = [id EXCEPT ![c] = u]
                 /\ body' = [body EXCEPT ![c] =
                      MarshalRequest(args[c].method, args[c].params, u)]
                 /\ pc' = [pc EXCEPT ![c] = "newRequest"]
                 /\ UNCHANGED err
            ELSE /\ id' = [id EXCEPT ![c] = UuidNil]
                 /\ UNCHANGED body
                 /\ Return(c, ErrMarshal)
  /\ UNCHANGED <<client, args, ctxErr, cancelAt, callOpts, req, sent, res,
                 resBody, deferred, rpcRes, out>>

\* lines 104-107 and newRequest
BuildRequest(c) ==
  /\ pc[c] = "newRequest"
  /\ Stage(c, "newRequest")
  /\ IF UrlParses(args[c].url)
       THEN /\ req' = [req EXCEPT ![c] =
                 NewRequest(args[c].url, body[c], callOpts[c])]
            /\ pc' = [pc EXCEPT ![c] = "do"]
            /\ UNCHANGED err
       ELSE /\ Return(c, ErrNewRequest)
            /\ UNCHANGED req
  /\ UNCHANGED <<client, args, ctxErr, cancelAt, callOpts, id, body, sent,
                 res, resBody, deferred, rpcRes, out, issued>>

\* line 109, the call: client.httpClient().Do(req) hands req to the transport
Do(c) ==
  /\ pc[c] = "do"
  /\ Stage(c, "do")
  /\ sent' = [sent EXCEPT ![c] =
                Append(@, [transport |-> HttpClient(client), request |-> req[c]])]
  /\ pc' = [pc EXCEPT ![c] = "inflight"]
  /\ UNCHANGED <<client, args, ctxErr, cancelAt, callOpts, id, body, req, res,
                 resBody, deferred, rpcRes, out, err, issued>>

(***************************************************************************)
(* The environment: the caller's context, and the transport with the       *)
(* server behind it.                                                        *)
(***************************************************************************)
\* the phase of a call: before the transport has the request, while it has
\* it (Do has not returned), while the body of the response Do returned is
\* still to be read, once it has been read, and when Call is back
Phase(c) ==
  CASE pc[c] \in {"validate", "options", "requestBody", "newRequest", "do"} -> "before"
    [] pc[c] = "inflight" -> "inflight"
    [] pc[c] \in {"status", "decode", "checkError", "checkID", "unmarshal", "return"} ->
         IF resBody[c].unread > 0 /\ ~resBody[c].closed THEN "body" ELSE "read"
    [] OTHER -> "over"

\* whether the context the transport watches for the call's request has
\* ended: the caller's, when the request is bound to it
CtxEnded(c) == req[c].Ctx = "ctx" /\ ctxErr[c] # ""

\* the caller cancels the context, or its deadline passes
CtxDone(c, causes) ==
  /\ Phase(c) # "over"
  /\ ctxErr[c] = ""
  /\ \E cause \in causes : ctxErr' = [ctxErr EXCEPT ![c] = cause]
  /\ cancelAt' = [cancelAt EXCEPT ![c] = Phase(c)]
  /\ UNCHANGED <<client, args, pc, callOpts, id, body, req, sent, res, resBody,
                 deferred, rpcRes, out, err, stages, issued>>

CtxCauses == {"context canceled", "context deadline exceeded"}

\* http.Response.Status for the status codes the model's server answers with
StatusText(code) ==
  CASE code = 200 -> "200 OK"
    [] code = 204 -> "204 No Content"
    [] code = 301 -> "301 Moved Permanently"
    [] code = 404 -> "404 Not Found"
    [] OTHER -> "503 Service Unavailable"

MkResponse(code, b, trailing) ==
  [kind |-> "response", StatusCode |-> code, Status |-> StatusText(code),
   Body |-> b, Trailing |-> trailing]

\* line 109, Do returns a response (only while the context is live: the
\* transport honours the request's context), and lines 113-114 register
\* the deferred calls
DoReturnsResponse(c, responses) ==
  /\ pc[c] = "inflight"
  /\ ~CtxEnded(c)
  /\ \E r \in responses :
       /\ res' = [res EXCEPT ![c] = r]
       /\ resBody' = [resBody EXCEPT ![c] =
            [unread |-> (IF r.Body.k = "empty" THEN 0 ELSE 1) + r.Trailing,
             failed |-> "", closed |-> FALSE]]
  /\ deferred' = [deferred EXCEPT ![c] = DeferredAfterDo]
  /\ pc' = [pc EXCEPT ![c] = "status"]
  /\ UNCHANGED <<client, args, ctxErr, cancelAt, callOpts, id, body, req, sent,
                 rpcRes, out, err, stages, issued>>

\* lines 109-112, Do returns an error: a network failure while the context
\* is live, the context's error once it has ended
DoReturnsError(c) ==
  /\ pc[c] = "inflight"
  /\ err' = [err EXCEPT ![c] =
       ErrPost(IF CtxEnded(c) THEN ctxErr[c] ELSE "dial tcp: connection refused")]
  /\ pc' = [pc EXCEPT ![c] = AfterDoError]
  /\ UNCHANGED <<client, args, ctxErr, cancelAt, callOpts, id, body, req, sent,
                 res, resBody, deferred, rpcRes, out, stages, issued>>

\* lines 116-118
CheckStatus(c) ==
  /\ pc[c] = "status"
  /\ Stage(c, "status")
  /\ IF StatusIsOK(res[c].StatusCode)
       THEN pc' = [pc EXCEPT ![c] = "decode"] /\ UNCHANGED err
       ELSE Return(c, ErrStatus(res[c].Status))
  /\ UNCHANGED <<client, args, ctxErr, cancelAt, callOpts, id, body, req, sent,
                 res, resBody, deferred, rpcRes, out, issued>>

\* lines 120-124: the decoder reads the first JSON value of the stream, and
\* may have read further.  Once the context has ended a read either is served
\* from what the connection had buffered or fails with the context's error.
Decode(c) ==
  /\ pc[c] = "decode"
  /\ Stage(c, "decode")
  /\ \/ /\ \E n \in (IF resBody[c].unread = 0 THEN {0} ELSE 1..resBody[c].unread) :
             resBody' = [resBody EXCEPT ![c].unread = @ - n]
        /\ LET d == DecodeEnvelope(res[c].Body)
           IN /\ rpcRes' = [rpcRes EXCEPT ![c] = d.v]
              /\ IF d.err = ""
                   THEN pc' = [pc EXCEPT ![c] = ChecksAfterDecode[1]] /\ UNCHANGED err
                   ELSE Return(c, ErrDecodeResponse(d.err))
     \/ /\ CtxEnded(c)
        /\ resBody' = [resBody EXCEPT ![c].failed = "decode"]
        /\ Return(c, ErrDecodeResponse(ctxErr[c]))
        /\ UNCHANGED rpcRes
  /\ UNCHANGED <<client, args, ctxErr, cancelAt, callOpts, id, body, req, sent,
                 res, deferred, out, issued>>

\* lines 126-128
CheckError(c) ==
  /\ pc[c] = "checkError"
  /\ Stage(c, "checkError")
  /\ IF HasError(rpcRes[c])
       THEN Return(c, ErrServer(rpcRes[c].Error))
       ELSE pc' = [pc EXCEPT ![c] = CheckAfter("checkError")] /\ UNCHANGED err
  /\ UNCHANGED <<client, args, ctxErr, cancelAt, callOpts, id, body, req, sent,
                 res, resBody, deferred, rpcRes, out, issued>>

\* lines 130-132
CheckID(c) ==
  /\ pc[c] = "checkID"
  /\ Stage(c, "checkID")
  /\ IF IDMatches(rpcRes[c].ID, id[c])
       THEN pc' = [pc EXCEPT ![c] = CheckAfter("checkID")] /\ UNCHANGED err
       ELSE Return(c, ErrIDMismatch)
  /\ UNCHANGED <<client, args, ctxErr, cancelAt, callOpts, id, body, req, sent,
                 res, resBody, deferred, rpcRes, out, issued>>

\* lines 134-138
UnmarshalResult(c) ==
  /\ pc[c] = "unmarshal"
  /\ Stage(c, "unmarshal")
  /\ LET u == Unmarshal(rpcRes[c].Result, out[c])
     IN /\ out' = [out EXCEPT ![c] = u.out]
        /\ Return(c, IF u.err = "" THEN NoErr ELSE ErrDecodeResult(u.err))
  /\ UNCHANGED <<client, args, ctxErr, cancelAt, callOpts, id, body, req, sent,
                 res, resBody, deferred, rpcRes, issued>>

\* line 114 at return, io.Copy(ioutil.Discard, res.Body): it reads until a
\* read returns io.EOF or an error.  A closed body's read is an error, and
\* so is every read after a failed one.
Drain(c) ==
  /\ pc[c] = "return"
  /\ deferred[c] # <<>>
  /\ deferred[c][Len(deferred[c])] = "drain"
  /\ Stage(c, "drain")
  /\ \/ /\ ~resBody[c].closed /\ resBody[c].failed = ""
        /\ resBody' = [resBody EXCEPT ![c].unread = 0]
     \/ /\ resBody[c].closed \/ resBody[c].failed # "" \/ CtxEnded(c)
        /\ resBody' = [resBody EXCEPT ![c].failed = IF @ = "" THEN "drain" ELSE @]
  /\ deferred' = [deferred EXCEPT ![c] = SubSeq(@, 1, Len(@) - 1)]
  /\ pc' = [pc EXCEPT ![c] = IF Len(deferred[c]) = 1 THEN "done" ELSE "return"]
  /\ UNCHANGED <<client, args, ctxErr, cancelAt, callOpts, id, body, req, sent,
                 res, rpcRes, out, err, issued>>

\* line 113 at return, res.Body.Close()
Close(c) ==
  /\ pc[c] = "return"
  /\ deferred[c] # <<>>
  /\ deferred[c][Len(deferred[c])] = "close"
  /\ Stage(c, "close")
  /\ resBody' = [resBody EXCEPT ![c].closed = TRUE]
  /\ deferred' = [deferred EXCEPT ![c] = SubSeq(@, 1, Len(@) - 1)]
  /\ pc' = [pc EXCEPT ![c] = IF Len(deferred[c]) = 1 THEN "done" ELSE "return"]
  /\ UNCHANGED <<client, args, ctxErr, cancelAt, callOpts, id, body, req, sent,
                 res, rpcRes, out, err, issued>>

(***************************************************************************)
(* What the server answers.                                                 *)
(***************************************************************************)
MkBody(k, jsonrpc, result, error, rid) ==
  [k |-> k, jsonrpc |-> jsonrpc, result |-> result, error |-> error, id |-> rid]
NonObject(k) == MkBody(k, JAbsent, JAbsent, JAbsent, JAbsent)
ErrorObject(code, message, data) ==
  [t |-> "obj", code |-> code, message |-> message, data |-> data]
ResultObject(a, b) == [t |-> "obj", a |-> a, b |-> b]

WireVersions == {JStr(Version)}
WireIDs == {JNull, JStr("uuid-1"), JStr("uuid-2"), JStr("urn:uuid:uuid-1"),
            JStr("not-a-uuid")}
WireErrors == {JNull, JStr("oops"),
               ErrorObject(JNum(MethodNotFound), JStr("Method not found"), JNull),
               ErrorObject(JAbsent, JAbsent, JAbsent)}
WireResults == {JAbsent, JNull, JNum(42), ResultObject(JNum(1), JNum(2)),
                ResultObject(JNum(1), JStr("x"))}
Objects == {MkBody("object", v, r, e, i) :
              v \in WireVersions, r \in WireResults, e \in WireErrors, i \in WireIDs}
Bodies == Objects \cup {NonObject("empty"), NonObject("garbage"), NonObject("scalar")}
\* the bodies of the answers that are not 200 OK
OtherBodies ==
  {NonObject("empty"), NonObject("garbage")} \cup
  {MkBody("object", JStr(Version), ResultObject(JNum(1), JNum(2)), JNull, JStr(u)) :
     u \in UUIDs}
OtherStatuses == {204, 301, 404, 503}
Responses ==
  {MkResponse(StatusOK, b, 0) : b \in Bodies} \cup
  {MkResponse(StatusOK, b, t) : b \in Bodies \ {NonObject("empty")}, t \in 0..MaxTrailing} \cup
  {MkResponse(code, b, 0) : code \in OtherStatuses, b \in OtherBodies} \cup
  {MkResponse(code, b, t) : code \in OtherStatuses,
                            b \in OtherBodies \ {NonObject("empty")}, t \in 0..MaxTrailing}

(***************************************************************************)
(* The specification: one goroutine calls Call once.                        *)
(***************************************************************************)
Init == InitWith({1}, ArgSet, HTTPClients)

\* a step of the goroutine running call c
CallStep(c) ==
  \/ Validate(c)
  \/ Options(c)
  \/ RequestBody(c)
  \/ BuildRequest(c)
  \/ Do(c)
  \/ CheckStatus(c)
  \/ Decode(c)
  \/ CheckError(c)
  \/ CheckID(c)
  \/ UnmarshalResult(c)
  \/ Drain(c)
  \/ Close(c)

Next ==
  \E c \in Calls :
    \/ CallStep(c)
    \/ DoReturnsResponse(c, Responses)
    \/ DoReturnsError(c)
    \/ CtxDone(c, CtxCauses)

Spec == Init /\ [][Next]_vars

(***************************************************************************)
(* The specification of cancellation: one call, a few answers, and the      *)
(* fairness the runtime gives: the goroutine of a call keeps running, and   *)
(* a transport whose request's context has ended returns from Do.           *)
(***************************************************************************)
CancelArgSet == [url : URLs, method : Methods, params : {Nil, "chan"},
                 result : Results, opts : {<<>>}]
CancelBodies ==
  {NonObject("garbage")} \cup
  {MkBody("object", JStr(Version), ResultObject(JNum(1), JNum(2)), e, JStr(u)) :
     e \in {JNull, ErrorObject(JNum(MethodNotFound), JStr("Method not found"), JNull)},
     u \in UUIDs}
CancelResponses ==
  {MkResponse(code, b, t) : code \in {StatusOK, 503}, b \in CancelBodies,
                            t \in 0..MaxTrailing}

InitCancel == InitWith({1}, CancelArgSet, {Nil})

\* Do returns because the request's context has ended
DoAborted(c) == CtxEnded(c) /\ DoReturnsError(c)

NextCancel ==
  \E c \in Calls :
    \/ CallStep(c)
    \/ DoReturnsResponse(c, CancelResponses)
    \/ DoReturnsError(c)
    \/ CtxDone(c, CtxCauses)

SpecCancel ==
  /\ InitCancel
  /\ [][NextCancel]_vars
  /\ \A c \in Calls : WF_vars(CallStep(c)) /\ WF_vars(DoAborted(c))

(***************************************************************************)
(* The specification of the request: one call, with the params values and  *)
(* the header options that tell the requests apart, and a few answers.      *)
(***************************************************************************)
\* nil, a nil pointer, an empty struct, a struct with fields, a channel
RequestParamValues == {Nil, "typed-nil", "empty", "query", "chan"}
ContentTypeHeader == MkHeader(<< <<"Content-Type", <<"application/json">> >> >>)
\* a header built as a map literal, its keys not canonical, in the two
\* orders a range can visit them
LiteralHeader ==
  MkHeader(<< <<"content-type", <<"text/plain">> >>,
              <<"x-custom-header", <<"a", "b">> >> >>)
LiteralHeaderReversed ==
  MkHeader(<< <<"x-custom-header", <<"a", "b">> >>,
              <<"content-type", <<"text/plain">> >> >>)
RequestHeaderValues ==
  {NilHeader, MkHeader(<<>>), CustomHeader, ContentTypeHeader, LiteralHeader,
   LiteralHeaderReversed}
RequestOptLists == UNION {[1..n -> RequestHeaderValues] : n \in 0..MaxOpts}
RequestArgSet == [url : URLs, method : {"ping"}, params : RequestParamValues,
                  result : Results, opts : RequestOptLists]
RequestResponses ==
  {MkResponse(StatusOK, NonObject("garbage"), 0)} \cup
  {MkResponse(StatusOK,
              MkBody("object", JStr(Version), ResultObject(JNum(1), JNum(2)), JNull, JStr(u)),
              0) : u \in UUIDs}

InitRequest == InitWith({1}, RequestArgSet, {Nil})

NextRequest ==
  \E c \in Calls :
    \/ CallStep(c)
    \/ DoReturnsResponse(c, RequestResponses)
    \/ DoReturnsError(c)
    \/ CtxDone(c, {"context canceled"})

SpecRequest == InitRequest /\ [][NextRequest]_vars

(***************************************************************************)
(* The specification of concurrent use: two goroutines call Call on the    *)
(* same Client, and the server may answer a call with the identifier of     *)
(* the other.                                                               *)
(***************************************************************************)
ConcurrentArgSet ==
  [url : {"https://example.com/jsonrpc"}, method : Methods, params : {Nil},
   result : Results, opts : {<<>>, <<CustomHeader>>}]
ConcurrentBodies ==
  {NonObject("garbage"),
   MkBody("object", JStr(Version), JNull,
          ErrorObject(JNum(MethodNotFound), JStr("Method not found"), JNull),
          JStr("uuid-1"))} \cup
  {MkBody("object", JStr(Version), ResultObject(JNum(1), JNum(2)), JNull, JStr(u)) :
     u \in UUIDs}
ConcurrentResponses ==
  {MkResponse(StatusOK, b, 0) : b \in ConcurrentBodies} \cup
  {MkResponse(503, NonObject("garbage"), 0)}

InitConcurrent == InitWith(Calls, ConcurrentArgSet, HTTPClients)

NextConcurrent ==
  \E c \in Calls :
    \/ CallStep(c)
    \/ DoReturnsResponse(c, ConcurrentResponses)
    \/ DoReturnsError(c)
    \/ CtxDone(c, {"context canceled"})

SpecConcurrent == InitConcurrent /\ [][NextConcurrent]_vars

(***************************************************************************)
(* The specification of the version member: one call, answered by          *)
(* envelopes that differ in their jsonrpc member.                           *)
(***************************************************************************)
\* "2.0", another string, no member: the values that decode into the string
\* field; a number does not
StringVersions == {JStr(Version), JStr("1.0"), JAbsent}
VersionBodies ==
  {NonObject("garbage")} \cup
  {MkBody("object", v, r, e, i) :
     v \in StringVersions \cup {JNum(2)},
     r \in {JNull, ResultObject(JNum(1), JNum(2)), ResultObject(JNum(1), JStr("x"))},
     e \in {JNull, ErrorObject(JNum(MethodNotFound), JStr("Method not found"), JNull)},
     i \in {JNull, JStr("uuid-1"), JStr("uuid-2")}}
VersionResponses ==
  {MkResponse(StatusOK, b, t) : b \in VersionBodies, t \in 0..MaxTrailing} \cup
  {MkResponse(503, NonObject("garbage"), 0)}

InitVersion == InitWith({1}, CancelArgSet, {Nil})

NextVersion ==
  \E c \in Calls :
    \/ CallStep(c)
    \/ DoReturnsResponse(c, VersionResponses)
    \/ DoReturnsError(c)
    \/ CtxDone(c, {"context canceled"})

SpecVersion == InitVersion /\ [][NextVersion]_vars

(***************************************************************************)
(* Shorthands of the properties.                                            *)
(***************************************************************************)
Returned(c) == pc[c] = "done"
GotResponse(c) == res[c].kind = "response"
Ran(c, stage) == \E i \in 1..Len(stages[c]) : stages[c][i] = stage
\* the envelope the wire carried, as the decoder reads it
Wire(c) == DecodeEnvelope(res[c].Body)
\* Do returned 200 OK with a body that decodes, and the decoder got to read it
Decoded200(c) ==
  /\ GotResponse(c)
  /\ res[c].StatusCode = 200
  /\ Wire(c).err = ""
  /\ resBody[c].failed # "decode"

(***************************************************************************)
(* C1: a call whose method is the empty string returns the empty-method    *)
(* error, whatever its other arguments, and nothing is ever handed to the  *)
(* transport: the call never gets past the validation.                      *)
(***************************************************************************)
C1_EmptyMethodFailsFast ==
  \A c \in Calls :
    (pc[c] # "idle" /\ args[c].method = "") =>
      /\ sent[c] = <<>>
      /\ ~GotResponse(c)
      /\ pc[c] \in {"validate", "done"}
      /\ Returned(c) => err[c] = ErrEmptyMethod

C1_Witness ==
  \E c \in Calls :
    /\ Returned(c) /\ args[c].method = ""
    /\ args[c].url = "://bad" /\ args[c].params = "chan" /\ args[c].opts # <<>>
    /\ err[c] = ErrEmptyMethod

(***************************************************************************)
(* C2: Call returns nil only if the identifier of the decoded response      *)
(* envelope equals the identifier this call generated and sent in its       *)
(* request, and the output is never written from a response whose           *)
(* identifier differs.                                                      *)
(***************************************************************************)
C2_SuccessOnlyOnMatchingID ==
  \A c \in Calls :
    /\ (Returned(c) /\ err[c] = NoErr) =>
         /\ GotResponse(c)
         /\ id[c] \in UUIDs
         /\ Len(sent[c]) = 1
         /\ sent[c][1].request.Body.id = JStr(id[c])
         /\ DecodeID(res[c].Body.id).ok
         /\ DecodeID(res[c].Body.id).v = id[c]
    /\ out[c] # args[c].result =>
         /\ GotResponse(c)
         /\ DecodeID(res[c].Body.id).v = id[c]

C2_Witness ==
  \E c \in Calls :
    /\ Returned(c) /\ err[c] = NoErr
    /\ out[c] # args[c].result
    /\ res[c].Body.id = JStr("urn:uuid:uuid-1")

(***************************************************************************)
(* C3, as stated: every 200 response whose body decodes to an envelope with *)
(* another identifier than the request's ends in the identifier-mismatch    *)
(* error.                                                                   *)
(***************************************************************************)
C3_Original ==
  \A c \in Calls :
    (Returned(c) /\ Decoded200(c) /\ Wire(c).v.ID # id[c]) =>
      err[c] = ErrIDMismatch

(***************************************************************************)
(* C3, amended: every 200 response whose body decodes to an envelope with   *)
(* a null or absent error and another identifier than the request's ends in *)
(* the identifier-mismatch error, result-bearing or not, and the output is  *)
(* not written; with a non-null error the server's error is returned.       *)
(***************************************************************************)
C3_MismatchWithoutError ==
  \A c \in Calls :
    (Returned(c) /\ Decoded200(c) /\ Wire(c).v.ID # id[c]) =>
      /\ Wire(c).v.Error.nil => (err[c] = ErrIDMismatch /\ out[c] = args[c].result)
      /\ ~Wire(c).v.Error.nil => err[c].kind = "server"

C3_Witness ==
  \E c \in Calls :
    /\ Returned(c) /\ Decoded200(c)
    /\ res[c].Body.result = ResultObject(JNum(1), JNum(2))
    /\ res[c].Body.error = JNull
    /\ res[c].Body.id \in {JStr(u) : u \in UUIDs \ {id[c]}}
    /\ err[c] = ErrIDMismatch

(***************************************************************************)
(* C4: every 200 response whose decoded envelope has a non-null error makes *)
(* Call return that error, code, message and data as the wire gave them;    *)
(* the result is not decoded and the output is as it was before the call.   *)
(***************************************************************************)
C4_ServerErrorReturned ==
  \A c \in Calls :
    (Returned(c) /\ Decoded200(c) /\ res[c].Body.error.t = "obj") =>
      LET w == res[c].Body.error
      IN /\ err[c].kind = "server"
         /\ ~err[c].re.nil
         /\ err[c].re.Code = (IF w.code.t = "num" THEN w.code.v ELSE 0)
         /\ err[c].re.Message = (IF w.message.t = "str" THEN w.message.s ELSE "")
         /\ err[c].re.Data = (IF w.data.t = "absent" THEN JNull ELSE w.data)
         /\ ~Ran(c, "unmarshal")
         /\ out[c] = args[c].result

C4_Witness ==
  \E c \in Calls :
    /\ Returned(c) /\ Decoded200(c)
    /\ res[c].Body.error = ErrorObject(JNum(-32601), JStr("Method not found"), JNull)
    /\ res[c].Body.result = ResultObject(JNum(1), JNum(2))
    /\ err[c].kind = "server" /\ err[c].re.Code = MethodNotFound

(***************************************************************************)
(* C5: every response whose status code is not 200 makes Call return the    *)
(* status error carrying the response's status text; the body is never      *)
(* decoded and the output is unchanged, whatever the body holds.            *)
(***************************************************************************)
C5_Non200IsStatusError ==
  \A c \in Calls :
    (GotResponse(c) /\ res[c].StatusCode # 200) =>
      /\ ~Ran(c, "decode") /\ ~Ran(c, "unmarshal")
      /\ rpcRes[c] = ZeroResponse
      /\ out[c] = args[c].result
      /\ Returned(c) =>
           /\ err[c].kind = "status"
           /\ err[c].cause = res[c].Status
           /\ err[c].msg = "server does not respond 200 OK"

C5_Witness ==
  \E c \in Calls :
    /\ Returned(c) /\ GotResponse(c)
    /\ res[c].StatusCode = 204
    /\ res[c].Body.k = "object" /\ res[c].Body.id = JStr(id[c])
    /\ err[c] = ErrStatus("204 No Content")

(***************************************************************************)
(* C6: with a non-empty method and serializable params, when the server     *)
(* answers 200 with the request's identifier, no error and a result that    *)
(* deserializes into the output, Call returns nil and the output is what    *)
(* deserializing that result payload into it gives.                         *)
(***************************************************************************)
C6_RoundTrip ==
  \A c \in Calls :
    ( /\ Returned(c) /\ Decoded200(c)
      /\ args[c].method # "" /\ Serializable(args[c].params)
      /\ res[c].Body.id.t = "str" /\ ParseUUID(res[c].Body.id.s) = id[c]
      /\ res[c].Body.error.t \in {"absent", "null"}
      /\ Unmarshal(res[c].Body.result, args[c].result).err = "" ) =>
      /\ err[c] = NoErr
      /\ out[c] = Unmarshal(res[c].Body.result, args[c].result).out

C6_Witness ==
  \E c \in Calls :
    /\ Returned(c) /\ Decoded200(c)
    /\ args[c].params = "query"
    /\ res[c].Body.id = JStr(id[c])
    /\ res[c].Body.result = ResultObject(JNum(1), JNum(2))
    /\ err[c] = NoErr
    /\ out[c] = [A |-> 1, B |-> 2]

(***************************************************************************)
(* C7: a client built without a transport hands every request to the        *)
(* process-wide default transport; a client built with one hands every      *)
(* request to that one and never to the default; the transport is never nil.*)
(***************************************************************************)
C7_TransportSelection ==
  \A c \in Calls :
    \A i \in 1..Len(sent[c]) :
      /\ sent[c][i].transport # Nil
      /\ client.HTTPClient = Nil => sent[c][i].transport = DefaultClient
      /\ client.HTTPClient # Nil =>
           /\ sent[c][i].transport = client.HTTPClient
           /\ sent[c][i].transport # DefaultClient

C7_Witness ==
  \E c \in Calls :
    /\ Returned(c) /\ GotResponse(c)
    /\ client.HTTPClient = "custom-client"
    /\ sent[c] = << [transport |-> "custom-client", request |-> req[c]] >>

(***************************************************************************)
(* C8: a call hands at most one request to the transport, whatever its      *)
(* outcome, and exactly one once it is past building the request: when it   *)
(* returns with a non-empty method, serializable params and a url that      *)
(* parses.                                                                  *)
(***************************************************************************)
C8_OneRequestPerCall ==
  \A c \in Calls :
    /\ Len(sent[c]) <= 1
    /\ ( /\ Returned(c)
         /\ args[c].method # "" /\ Serializable(args[c].params)
         /\ UrlParses(args[c].url) ) => Len(sent[c]) = 1
    /\ ( /\ Returned(c)
         /\ ~(args[c].method # "" /\ Serializable(args[c].params)
              /\ UrlParses(args[c].url)) ) => Len(sent[c]) = 0

C8_Witness ==
  \E c \in Calls :
    /\ Returned(c) /\ ~GotResponse(c)
    /\ err[c] = ErrPost("dial tcp: connection refused")
    /\ Len(sent[c]) = 1

(***************************************************************************)
(* C9: whenever Do returned a response, by the time Call returns the body   *)
(* has been drained (read until the stream ended: to io.EOF, every byte     *)
(* consumed, unless a read failed) and then closed, in that order and as    *)
(* the last two things the call did, on every exit path.                    *)
(***************************************************************************)
C9_BodyDrainedThenClosed ==
  \A c \in Calls :
    (Returned(c) /\ GotResponse(c)) =>
      /\ Len(stages[c]) >= 2
      /\ SubSeq(stages[c], Len(stages[c]) - 1, Len(stages[c])) = <<"drain", "close">>
      /\ resBody[c].closed
      /\ resBody[c].failed = "" => resBody[c].unread = 0
      /\ deferred[c] = <<>>

C9_Witness ==
  \E c \in Calls :
    /\ Returned(c) /\ GotResponse(c)
    /\ err[c] = ErrIDMismatch
    /\ res[c].Trailing >= 1
    /\ resBody[c].unread = 0 /\ resBody[c].closed /\ resBody[c].failed = ""

(***************************************************************************)
(* C10, as stated: a context that ends while the HTTP exchange of a call is *)
(* in flight (the transport has the request, or the body of its response    *)
(* is still to be read) makes Call return the context's error wrapped as a  *)
(* failed-to-post error.                                                    *)
(***************************************************************************)
C10_Original ==
  \A c \in Calls :
    (Returned(c) /\ cancelAt[c] \in {"inflight", "body"}) =>
      err[c] = ErrPost(ctxErr[c])

(***************************************************************************)
(* C10, amended: a context that ends while the transport has the request    *)
(* (Do has not returned) aborts it: Do returns no response, Call returns    *)
(* the context's error wrapped as a failed-to-post error with the output    *)
(* untouched, never nil, and it does return.                                *)
(***************************************************************************)
C10_CancelInFlight ==
  /\ [](\A c \in Calls :
          cancelAt[c] = "inflight" =>
            /\ ~GotResponse(c)
            /\ pc[c] \in {"inflight", "done"}
            /\ Returned(c) =>
                 /\ err[c] = ErrPost(ctxErr[c])
                 /\ ctxErr[c] \in CtxCauses
                 /\ out[c] = args[c].result)
  /\ \A c \in Calls : (cancelAt[c] = "inflight") ~> Returned(c)

C10_Witness ==
  \E c \in Calls :
    /\ Returned(c) /\ cancelAt[c] = "inflight"
    /\ err[c] = ErrPost("context deadline exceeded")

(***************************************************************************)
(* C11, as stated: whenever Call returns an error, of any kind, the output  *)
(* is what it was before the call.                                          *)
(***************************************************************************)
C11_Original ==
  \A c \in Calls :
    (Returned(c) /\ err[c] # NoErr) => out[c] = args[c].result

(***************************************************************************)
(* C11, amended: whenever Call returns an error of any kind but the         *)
(* result-decode one, the output is what it was before the call.  On a      *)
(* result-decode error each field of the output is either what it was or    *)
(* the number the result payload gives for it: json.Unmarshal has written   *)
(* the fields it could decode.                                              *)
(***************************************************************************)
C11_NoWriteBeforeResultDecode ==
  \A c \in Calls :
    /\ (Returned(c) /\ err[c] # NoErr /\ err[c].kind # "decode-result") =>
         out[c] = args[c].result
    /\ (Returned(c) /\ err[c].kind = "decode-result") =>
         LET raw == res[c].Body.result
         IN /\ out[c].A \in {args[c].result.A} \cup
                 (IF raw.t = "obj" /\ raw.a.t = "num" THEN {raw.a.v} ELSE {})
            /\ out[c].B \in {args[c].result.B} \cup
                 (IF raw.t = "obj" /\ raw.b.t = "num" THEN {raw.b.v} ELSE {})

C11_Witness ==
  \E c \in Calls :
    /\ Returned(c) /\ err[c].kind = "decode-result"
    /\ res[c].Body.result = ResultObject(JNum(1), JStr("x"))
    /\ args[c].result = [A |-> 7, B |-> 8]
    /\ out[c] = [A |-> 1, B |-> 8]

\* the eight kinds of error the specification lists
ListedKinds ==
  {"empty-method", "marshal", "post", "status", "decode-response", "server",
   "id-mismatch", "decode-result"}

\* the stages of Call that run before the deferred ones, in the order logged
BodyStages(c) == SelectSeq(stages[c], LAMBDA s : s \notin {"drain", "close"})

\* the last stage of Call's body that ran
LastStage(c) == BodyStages(c)[Len(BodyStages(c))]

\* the kind of error each stage of Call returns
KindOfStage(stage) ==
  CASE stage = "validate" -> "empty-method"
    [] stage = "requestBody" -> "marshal"
    [] stage = "newRequest" -> "new-request"
    [] stage = "do" -> "post"
    [] stage = "status" -> "status"
    [] stage = "decode" -> "decode-response"
    [] stage = "checkError" -> "server"
    [] stage = "checkID" -> "id-mismatch"
    [] stage = "unmarshal" -> "decode-result"
    [] OTHER -> "none"

(***************************************************************************)
(* C12, as stated: every error Call returns is of one of the eight listed   *)
(* kinds, whatever the url string.                                          *)
(***************************************************************************)
C12_Original ==
  \A c \in Calls :
    (Returned(c) /\ err[c] # NoErr) => err[c].kind \in ListedKinds

(***************************************************************************)
(* C12, amended: every error Call returns is of exactly one of nine kinds,  *)
(* the eight listed and the request-construction error, and the kind is the *)
(* one of the stage that failed; the request-construction error is returned *)
(* exactly when the url does not parse and the call got that far.           *)
(***************************************************************************)
C12_NineKinds ==
  \A c \in Calls :
    (Returned(c) /\ err[c] # NoErr) =>
      /\ err[c].kind \in ListedKinds \cup {"new-request"}
      /\ err[c].kind = KindOfStage(LastStage(c))
      /\ err[c].kind = "new-request" <=>
           (/\ args[c].method # ""
            /\ Serializable(args[c].params)
            /\ ~UrlParses(args[c].url))

C12_Witness ==
  \E c \in Calls :
    /\ Returned(c) /\ err[c] = ErrNewRequest
    /\ args[c].url = "://bad" /\ args[c].method = "ping"
    /\ sent[c] = <<>>

\* the header the last option gave, nil when there is no option
LastHeader(opts) == IF opts = <<>> THEN NilHeader ELSE opts[Len(opts)]

\* the values a header's entries give for a canonical key, in order
RECURSIVE ValuesFor(_, _)
ValuesFor(kv, k) ==
  IF kv = <<>> THEN <<>>
  ELSE (IF CanonicalKey(Head(kv)[1]) = k THEN Head(kv)[2] ELSE <<>>)
         \o ValuesFor(Tail(kv), k)

\* the request of call c has been built
Built(c) == req[c] # NoReq

(***************************************************************************)
(* C13: the options are applied in order to an empty options value and a    *)
(* header option replaces the header set: the options value holds the       *)
(* header of the last option, the request carries, besides the content      *)
(* type, the entries of that header and of no earlier one, and with no      *)
(* option it carries no extra header.                                       *)
(***************************************************************************)
C13_LastHeaderOptionWins ==
  \A c \in Calls :
    /\ Ran(c, "options") => callOpts[c].Header = LastHeader(args[c].opts)
    /\ Built(c) =>
         /\ \A k \in HeaderKeys :
              req[c].Header[k] =
                (IF k = "Content-Type" THEN <<"text/json">> ELSE <<>>)
                  \o ValuesFor(LastHeader(args[c].opts).kv, k)
         /\ args[c].opts = <<>> =>
              req[c].Header = [EmptyHeader EXCEPT !["Content-Type"] = <<"text/json">>]
    /\ \A i \in 1..Len(sent[c]) : sent[c][i].request = req[c]

C13_Witness ==
  \E c \in Calls :
    /\ args[c].opts = <<CustomHeader, ContentTypeHeader>>
    /\ Len(sent[c]) = 1
    /\ sent[c][1].request.Header["X-Custom-Header"] = <<>>
    /\ sent[c][1].request.Header["Content-Type"] = <<"text/json", "application/json">>

\* whether value v is among the values of a sequence
Among(v, values) == \E i \in 1..Len(values) : values[i] = v

\* what C14 asks of a request built from the supplied header
KeepsContentType(request, supplied) ==
  /\ request.Method = "POST"
  /\ Len(request.Header["Content-Type"]) >= 1
  /\ request.Header["Content-Type"][1] = "text/json"
  /\ \A i \in 1..Len(supplied.kv) :
       \A j \in 1..Len(supplied.kv[i][2]) :
         Among(supplied.kv[i][2][j], request.Header[CanonicalKey(supplied.kv[i][1])])

(***************************************************************************)
(* C14: with headers supplied, the request is a POST whose Content-Type     *)
(* still has, first, the value the client set, and every supplied key and   *)
(* value is on the request, also when the supplied header has a             *)
(* Content-Type entry, under whatever spelling of the key.                  *)
(***************************************************************************)
C14_SuppliedHeadersAreAdded ==
  \A c \in Calls :
    /\ Built(c) => KeepsContentType(req[c], LastHeader(args[c].opts))
    /\ \A i \in 1..Len(sent[c]) :
         KeepsContentType(sent[c][i].request, LastHeader(args[c].opts))

C14_Witness ==
  \E c \in Calls :
    /\ LastHeader(args[c].opts) = LiteralHeaderReversed
    /\ Len(sent[c]) = 1
    /\ sent[c][1].request.Method = "POST"
    /\ sent[c][1].request.Header["Content-Type"] = <<"text/json", "text/plain">>
    /\ sent[c][1].request.Header["X-Custom-Header"] = <<"a", "b">>

\* what C15 asks of the envelope marshalled for call c
EnvelopeOf(c, envelope) ==
  /\ envelope.jsonrpc = JStr("2.0")
  /\ envelope.method = JStr(args[c].method)
  /\ id[c] \in UUIDs /\ envelope.id = JStr(id[c])
  /\ args[c].params = Nil => envelope.params = JAbsent
  /\ args[c].params # Nil => envelope.params # JAbsent

(***************************************************************************)
(* C15: the envelope of a request always has the version "2.0", the method   *)
(* and the identifier; it has no params member at all, not a null one, when  *)
(* the params are nil, and it has a params member when they are not nil,     *)
(* an empty value included.                                                  *)
(***************************************************************************)
C15_ParamsOmittedOnlyWhenNil ==
  \A c \in Calls :
    /\ body[c] # NoBytes => EnvelopeOf(c, body[c])
    /\ \A i \in 1..Len(sent[c]) : EnvelopeOf(c, sent[c][i].request.Body)

C15_Witness ==
  \E c \in Calls :
    /\ args[c].params = "empty"
    /\ Len(sent[c]) = 1
    /\ sent[c][1].request.Body.params = [t |-> "val", p |-> "empty"]
    /\ sent[c][1].request.Body.jsonrpc = JStr("2.0")

\* the stages of Call in the order of the source
FixedOrder ==
  <<"validate", "options", "requestBody", "newRequest", "do", "status",
    "decode", "checkError", "checkID", "unmarshal">>

IsPrefix(s, t) == Len(s) <= Len(t) /\ \A i \in 1..Len(s) : s[i] = t[i]

(***************************************************************************)
(* C16: the stages of a call run in the one fixed order; once a stage has   *)
(* failed no later stage runs and the call returns that stage's error; so   *)
(* the identifier is checked only after the error check has passed and the  *)
(* result is decoded only after the identifier check has passed.            *)
(***************************************************************************)
C16_FixedStageOrder ==
  \A c \in Calls :
    /\ IsPrefix(BodyStages(c), FixedOrder)
    /\ err[c] # NoErr =>
         /\ pc[c] \in {"return", "done"}
         /\ err[c].kind = KindOfStage(LastStage(c))
    /\ Ran(c, "options") => args[c].method # ""
    /\ Ran(c, "decode") => res[c].StatusCode = 200
    /\ Ran(c, "checkID") => Ran(c, "checkError") /\ Wire(c).v.Error = NilError
    /\ Ran(c, "unmarshal") => Ran(c, "checkID") /\ Wire(c).v.ID = id[c]

C16_Witness ==
  \E c \in Calls :
    /\ Returned(c) /\ err[c].kind = "server"
    /\ BodyStages(c) = SubSeq(FixedOrder, 1, 8)
    /\ Wire(c).v.ID # id[c]
    /\ Wire(c).v.Result = ResultObject(JNum(1), JStr("x"))

\* the error and the output Call gives for the arguments and the identifier
\* of call c when the transport delivers r to it
Outcome(c, r) ==
  LET a == args[c]
      same(e) == [err |-> e, out |-> a.result]
      w == DecodeEnvelope(r.Body)
      u == Unmarshal(w.v.Result, a.result)
  IN CASE a.method = "" -> same(ErrEmptyMethod)
       [] a.method # "" /\ ~Serializable(a.params) -> same(ErrMarshal)
       [] a.method # "" /\ Serializable(a.params) /\ ~UrlParses(a.url) ->
            same(ErrNewRequest)
       [] OTHER ->
            IF r.kind # "response" THEN same(ErrPost(""))
            ELSE IF r.StatusCode # 200 THEN same(ErrStatus(r.Status))
            ELSE IF resBody[c].failed = "decode" THEN same(ErrDecodeResponse(ctxErr[c]))
            ELSE IF w.err # "" THEN same(ErrDecodeResponse(w.err))
            ELSE IF w.v.Error # NilError THEN same(ErrServer(w.v.Error))
            ELSE IF w.v.ID # id[c] THEN same(ErrIDMismatch)
            ELSE [err |-> IF u.err = "" THEN NoErr ELSE ErrDecodeResult(u.err),
                  out |-> u.out]

\* the same error, but for the cause a transport gives for its failure
SameError(e, f) ==
  /\ e.kind = f.kind /\ e.msg = f.msg /\ e.re = f.re
  /\ e.kind # "post" => e.cause = f.cause

\* what call c returned is what Outcome gives for the response r
ReturnedOutcome(c, r) ==
  SameError(err[c], Outcome(c, r).err) /\ out[c] = Outcome(c, r).out

\* the variables of call c
Local(c) ==
  <<args[c], ctxErr[c], cancelAt[c], pc[c], callOpts[c], id[c], body[c], req[c],
    sent[c], res[c], resBody[c], deferred[c], rpcRes[c], out[c], err[c], stages[c]>>

\* two goroutines are calling
BothCalling == \A c \in Calls : args[c] # IdleArgs

(***************************************************************************)
(* C17: under any interleaving of the calls on one Client, no step writes   *)
(* the Client and no step of a call changes what belongs to another call;   *)
(* the calls have identifiers of their own, each call's options value and   *)
(* request come from its own options, and what a call returns is determined *)
(* by its own arguments, its identifier and the response delivered to it.   *)
(***************************************************************************)
C17_CallsAreIndependent ==
  /\ [](\A c \in Calls :
          /\ \A d \in Calls \ {c} : id[c] \in UUIDs => id[c] # id[d]
          /\ Ran(c, "options") => callOpts[c].Header = LastHeader(args[c].opts)
          /\ Built(c) =>
               /\ req[c].Header = RequestHeader([Header |-> LastHeader(args[c].opts)])
               /\ req[c].Body.id = JStr(id[c])
          /\ Returned(c) => ReturnedOutcome(c, res[c]))
  /\ [][/\ client' = client
        /\ \A c \in Calls : \A d \in Calls \ {c} :
             Local(c)' = Local(c) \/ Local(d)' = Local(d)]_vars

C17_Witness ==
  /\ BothCalling
  /\ \A c \in Calls : Returned(c) /\ Len(sent[c]) = 1
  /\ args[1].opts = <<>> /\ args[2].opts = <<CustomHeader>>
  /\ stages[2][2] = "options" /\ sent[1][1].request.Header["X-Custom-Header"] = <<>>
  /\ err[1].kind = "id-mismatch" /\ res[1].Body.id = JStr(id[2])
  /\ err[2] = NoErr /\ out[2] = [A |-> 1, B |-> 2]
  /\ client.HTTPClient = "custom-client"

\* the response r with the jsonrpc member of its envelope set to v
WithVersion(r, v) == [r EXCEPT !.Body.jsonrpc = v]

\* call c was answered 200 with an envelope whose version is a string or absent
GotVersioned(c) ==
  /\ GotResponse(c) /\ res[c].StatusCode = 200
  /\ res[c].Body.k = "object" /\ res[c].Body.jsonrpc \in StringVersions

(***************************************************************************)
(* C18: the jsonrpc member of a 200 response has no effect on what Call      *)
(* returns: the error and the output of a call answered with "2.0", with     *)
(* another string or with no version member are the ones it would return     *)
(* for the same response with any other of these versions.                   *)
(***************************************************************************)
C18_VersionIgnored ==
  \A c \in Calls :
    (Returned(c) /\ GotVersioned(c)) =>
      \A v \in StringVersions : ReturnedOutcome(c, WithVersion(res[c], v))

C18_Witness ==
  \E c \in Calls :
    /\ Returned(c) /\ GotVersioned(c)
    /\ res[c].Body.jsonrpc = JStr("1.0")
    /\ res[c].Body.id = JStr(id[c])
    /\ err[c] = NoErr /\ out[c] = [A |-> 1, B |-> 2]

====
